---- MODULE Spec2Model ----
(***************************************************************************)
(* The streaming aggregation core of the IoT dashboard: the Dashboard      *)
(* component (React state, the fetchHistory bootstrap and the MQTT event   *)
(* handlers) and the /api/sensors history route.                           *)
(*                                                                         *)
(* JavaScript values are records [k, n, s]: k is the kind ("num", "str",   *)
(* "null", "undef", "nan"), n the number in tenths (215 is 21.5), s the    *)
(* string.  One shape for every value keeps comparisons total.             *)
(***************************************************************************)
EXTENDS Integers, Sequences, FiniteSets, TLC

VARIABLES
    data,           \* useState<SensorData>: the latest sample
    chartData,      \* useState<SensorData[]>: the window
    stats,          \* useState<Stats>
    status,         \* useState<'connecting' | 'online' | 'offline'>
    messageCount,   \* useState(0)
    client,         \* the MQTT client's connection: connecting, connected, closed
    subscribeCalls, \* client.subscribe calls issued since the connection last closed
    ended,          \* the effect cleanup has called client.end()
    fetch,          \* fetchHistory: pending, responded, seeded, failed
    response,       \* the /api/sensors response in flight to fetchHistory
    arrivals,       \* history variable: the samples appended live, in arrival order
    lastOp,         \* history variable: the handler that ran last and its outcome
    rawIn,          \* input of the normalization under NormSpec
    normOut         \* its output under NormSpec

vars == <<data, chartData, stats, status, messageCount, client, subscribeCalls,
          ended, fetch, response, arrivals, lastOp, rawIn, normOut>>

(***************************************************************************)
(* Bounds of the model.                                                    *)
(***************************************************************************)
\* The window capacity: slice(-100) in the source, scaled down.
Capacity == 3
\* Well-formed messages handled in one run.
MaxMessages == 4
\* Rows one history query returns: limit(n: 500) in the source, scaled down
\* and kept above Capacity.
MaxRows == 4
\* Significant bits of a floating-point number: 53 in the source's doubles,
\* scaled down.
SignificandBits == 17
\* Binary places of the smallest floating-point unit: 1074 in the source's
\* doubles, scaled down.
FractionBits == 20
\* Samples in a window whose stats are examined on their own.
MaxSeq == 4

(***************************************************************************)
(* JavaScript values.                                                      *)
(***************************************************************************)
Num(x) == [k |-> "num", n |-> x, s |-> ""]
Str(x) == [k |-> "str", n |-> 0, s |-> x]
Null == [k |-> "null", n |-> 0, s |-> ""]
Undef == [k |-> "undef", n |-> 0, s |-> ""]
NaN == [k |-> "nan", n |-> 0, s |-> ""]

\* ToBoolean: what `||`, `? :` and filter(r => r.x) test.
Truthy(v) ==
    \/ v.k = "num" /\ v.n # 0
    \/ v.k = "str" /\ v.s # ""

\* a || b
Or(a, b) == IF Truthy(a) THEN a ELSE b

\* Number.prototype.toFixed(1) of a number in tenths; "NaN" for NaN.
ToFixed1(v) ==
    IF v.k = "nan" THEN Str("NaN")
    ELSE IF v.n < 0
         THEN Str("-" \o ToString((0 - v.n) \div 10) \o "." \o ToString((0 - v.n) % 10))
         ELSE Str(ToString(v.n \div 10) \o "." \o ToString(v.n % 10))

\* ToNumber, as Math.min, Math.max and + apply it to an array element.
ToNumber(v) ==
    IF v.k = "num" THEN v
    ELSE IF v.k = "null" THEN Num(0)
    ELSE NaN

RECURSIVE MathMin(_)
MathMin(xs) ==
    IF Len(xs) = 1 THEN ToNumber(xs[1])
    ELSE LET h == ToNumber(xs[1])
             t == MathMin(Tail(xs))
         IN  IF h.k = "nan" \/ t.k = "nan" THEN NaN
             ELSE IF h.n <= t.n THEN h ELSE t

RECURSIVE MathMax(_)
MathMax(xs) ==
    IF Len(xs) = 1 THEN ToNumber(xs[1])
    ELSE LET h == ToNumber(xs[1])
             t == MathMax(Tail(xs))
         IN  IF h.k = "nan" \/ t.k = "nan" THEN NaN
             ELSE IF h.n >= t.n THEN h ELSE t

\* A number of the arithmetic in calculateStats is a binary floating-point
\* value: a count of units of 2^-FractionBits that keeps SignificandBits
\* significant bits (an IEEE double keeps 53).  RoundFloat(a, b) is the
\* quotient a / b of two counts rounded to the nearest such value, to the
\* even one on a tie.
Binade == 2 ^ SignificandBits
Unit == 2 ^ FractionBits

\* The unit in the last place of the binade that q lies in.
Ulp(q) ==
    IF q < Binade * 32
    THEN IF q < Binade * 4
         THEN IF q < Binade THEN 1
              ELSE IF q < Binade * 2 THEN 2 ELSE 4
         ELSE IF q < Binade * 8 THEN 8
              ELSE IF q < Binade * 16 THEN 16 ELSE 32
    ELSE IF q < Binade * 256
         THEN IF q < Binade * 64 THEN 64
              ELSE IF q < Binade * 128 THEN 128 ELSE 256
         ELSE IF q < Binade * 512 THEN 512
              ELSE IF q < Binade * 1024 THEN 1024
              ELSE IF q < Binade * 2048 THEN 2048 ELSE 4096

\* a / d in units of u, rounded to the nearest unit, to the even one on a tie
RoundAt(a, d, u) ==
    IF 2 * (a % d) > d \/ (2 * (a % d) = d /\ (a \div d) % 2 = 1)
    THEN ((a \div d) + 1) * u
    ELSE (a \div d) * u

RoundUlp(a, b, u) == RoundAt(a, b * u, u)

RoundFloat(a, b) ==
    IF a < Binade * b /\ a % b = 0 THEN a \div b
    ELSE RoundUlp(a, b, Ulp(a \div b))

\* The floating-point value of the decimal n / 10, as JSON.parse yields it.
ToFloat(v) == RoundFloat(v.n * Unit, 10)

\* xs.reduce((a, b) => a + b, 0): n is the sum as a floating-point count.
RECURSIVE Sum(_)
Sum(xs) ==
    IF xs = <<>> THEN Num(0)
    ELSE LET h == ToNumber(xs[Len(xs)])
             t == Sum(SubSeq(xs, 1, Len(xs) - 1))
         IN  IF h.k = "nan" \/ t.k = "nan" THEN NaN
             ELSE Num(RoundFloat(t.n + ToFloat(h), 1))

\* (sum / length).toFixed(1): the floating-point quotient, then the nearest
\* tenth of its exact value, the larger one on a tie.
AvgFixed1(xs) ==
    LET sum == Sum(xs)
    IN  IF sum.k = "nan" THEN Str("NaN")
        ELSE LET mean == RoundFloat(sum.n, Len(xs))
             IN  ToFixed1(Num((10 * mean + Unit \div 2) \div Unit))

\* A variant that keeps the first n elements, xs.slice(0, n).
SliceFirst(xs, n) ==
    IF Len(xs) <= n THEN xs ELSE SubSeq(xs, 1, n)

\* xs.slice(-n)
SliceLast(xs, n) ==
    IF Len(xs) <= n THEN xs ELSE SubSeq(xs, Len(xs) - n + 1, Len(xs))

\* A variant that copies without reversing, [...xs].
ReverseOmitted(xs) == xs

\* [...xs].reverse()
Reverse(xs) == [i \in 1..Len(xs) |-> xs[Len(xs) - i + 1]]

(***************************************************************************)
(* The Dashboard component.                                                *)
(***************************************************************************)
SensorData(temperature, humidity, light_status, light_value, timestamp, time) ==
    [temperature |-> temperature, humidity |-> humidity,
     light_status |-> light_status, light_value |-> light_value,
     timestamp |-> timestamp, time |-> time]

InitialData == SensorData(Null, Null, Str("unknown"), Num(0), Str("-"), Str("-"))

InitialStats ==
    [temp |-> [min |-> Str("--"), max |-> Str("--"), avg |-> Str("--")],
     humidity |-> [min |-> Str("--"), max |-> Str("--"), avg |-> Str("--")]]

\* data.filter(r => r.temperature !== null).map(r => r.temperature)
Temps(rows) ==
    LET kept == SelectSeq(rows, LAMBDA r : r.temperature.k # "null")
    IN  [i \in 1..Len(kept) |-> kept[i].temperature]

Humids(rows) ==
    LET kept == SelectSeq(rows, LAMBDA r : r.humidity.k # "null")
    IN  [i \in 1..Len(kept) |-> kept[i].humidity]

MetricStats(xs, none) ==
    [min |-> IF Len(xs) # 0 THEN ToFixed1(MathMin(xs)) ELSE none,
     max |-> IF Len(xs) # 0 THEN ToFixed1(MathMax(xs)) ELSE none,
     avg |-> IF Len(xs) # 0 THEN AvgFixed1(xs) ELSE none]

calculateStats(rows) ==
    [temp |-> MetricStats(Temps(rows), Str("--")),
     humidity |-> MetricStats(Humids(rows), Str("--"))]

\* new Date().toLocaleString(...) and toLocaleTimeString(...) of the handler's clock
ClockLocaleString == Str("now")
ClockLocaleTimeString == Str("now:ss")

\* An MQTT message body: text that is not JSON, the JSON text null, or a JSON
\* object whose absent fields read as undefined.
Message(json, temperature, humidity, light_status, light_value, timestamp) ==
    [json |-> json, temperature |-> temperature, humidity |-> humidity,
     light_status |-> light_status, light_value |-> light_value,
     timestamp |-> timestamp]

\* JSON.parse(message.toString()) throws a SyntaxError
JSONParseThrows(m) == m.json = "invalid"

\* payload.temperature throws a TypeError when the payload is null
PropertyReadThrows(m) == m.json = "null"

\* the try block of the message handler leaves through catch
HandlerThrows(m) == JSONParseThrows(m) \/ PropertyReadThrows(m)

\* A variant with the two branches swapped.
DeriveLightSwapped(light_value) ==
    IF light_value.k = "num" /\ light_value.n = 0 THEN Str("bright") ELSE Str("dark")

\* payload.light_value === 0 ? 'dark' : 'bright'
DeriveLight(light_value) ==
    IF light_value.k = "num" /\ light_value.n = 0 THEN Str("dark") ELSE Str("bright")

newData(payload) ==
    SensorData(payload.temperature,
               payload.humidity,
               Or(payload.light_status, DeriveLight(payload.light_value)),
               payload.light_value,
               Or(payload.timestamp, ClockLocaleString),
               ClockLocaleTimeString)

(***************************************************************************)
(* The history route, GET /api/sensors.                                    *)
(***************************************************************************)
\* results.slice(0, 20)
HistoryLen == 20

\* A row of the pivoted query, as tableMeta.toObject gives it; t is _time.
Row(t, temperature, humidity, light_status, light_value) ==
    [t |-> t, temperature |-> temperature, humidity |-> humidity,
     light_status |-> light_status, light_value |-> light_value]

\* new Date(data._time).toLocaleString(...) / toLocaleTimeString(..., hour, minute)
LocaleString(t) == Str("date " \o ToString(t))
LocaleTimeString(t) == Str("hh:mm " \o ToString(t))

\* next(row, tableMeta): the object pushed onto results
RowToResult(row) ==
    SensorData(row.temperature,
               row.humidity,
               Or(row.light_status, Str("unknown")),
               row.light_value,
               LocaleString(row.t),
               LocaleTimeString(row.t))

\* results.filter(r => r.temperature).map(r => r.temperature)
RouteTemps(results) ==
    LET kept == SelectSeq(results, LAMBDA r : Truthy(r.temperature))
    IN  [i \in 1..Len(kept) |-> kept[i].temperature]

RouteHumids(results) ==
    LET kept == SelectSeq(results, LAMBDA r : Truthy(r.humidity))
    IN  [i \in 1..Len(kept) |-> kept[i].humidity]

RouteStats(results) ==
    [temp |-> MetricStats(RouteTemps(results), Null),
     humidity |-> MetricStats(RouteHumids(results), Null)]

\* A variant that takes the last result, the oldest row.
RouteCurrentOldest(results) ==
    IF Len(results) > 0 THEN results[Len(results)]
    ELSE SensorData(Null, Null, Str("unknown"), Undef, Str("-"), Undef)

\* results[0] || { temperature: null, humidity: null, light_status: 'unknown', timestamp: '-' }
RouteCurrent(results) ==
    IF Len(results) > 0 THEN results[1]
    ELSE SensorData(Null, Null, Str("unknown"), Undef, Str("-"), Undef)

\* A response body: keys is the set of properties the JSON object has.
NoResponse ==
    [httpStatus |-> 0, keys |-> {}, error |-> Undef, current |-> InitialData,
     history |-> <<>>, chartData |-> <<>>, stats |-> InitialStats]

\* The catch branch: { error: 'Failed to fetch data' }, status 500
ErrorResponse ==
    [httpStatus |-> 500, keys |-> {"error"}, error |-> Str("Failed to fetch data"),
     current |-> InitialData, history |-> <<>>, chartData |-> <<>>,
     stats |-> InitialStats]

\* A variant that answers with the rows received so far when the query fails.
GETPartial(rows, failed) ==
    LET results == [i \in 1..Len(rows) |-> RowToResult(rows[i])]
    IN  [httpStatus |-> 200,
         keys |-> {"current", "history", "chartData", "stats"},
         error |-> Undef,
         current |-> RouteCurrent(results),
         history |-> SubSeq(results, 1, IF Len(results) < HistoryLen
                                        THEN Len(results) ELSE HistoryLen),
         chartData |-> Reverse(results),
         stats |-> RouteStats(results)]

\* GET: rows are the rows queryRows delivers to next, newest first; failed is
\* whether it then calls error (reject) instead of complete (resolve).
GET(rows, failed) ==
    LET results == [i \in 1..Len(rows) |-> RowToResult(rows[i])]
    IN  IF failed THEN ErrorResponse
        ELSE [httpStatus |-> 200,
              keys |-> {"current", "history", "chartData", "stats"},
              error |-> Undef,
              current |-> RouteCurrent(results),
              history |-> SubSeq(results, 1, IF Len(results) < HistoryLen
                                             THEN Len(results) ELSE HistoryLen),
              chartData |-> Reverse(results),
              stats |-> RouteStats(results)]

(***************************************************************************)
(* Inputs.                                                                 *)
(***************************************************************************)
\* The message bodies the broker delivers.
Messages ==
    { Message("invalid", Undef, Undef, Undef, Undef, Undef),
      Message("null", Undef, Undef, Undef, Undef, Undef),
      Message("object", Num(215), Num(500), Undef, Num(0), Undef),
      Message("object", Num(0), Null, Undef, Num(1), Str("12:00")),
      Message("object", Num(308), Num(405), Str("dark"), Num(1), Undef) }

\* The j-th oldest row of the store.
StoreRow(j) ==
    CASE j % 4 = 1 -> Row(j, Num(221), Num(480), Str("bright"), Num(1))
      [] j % 4 = 2 -> Row(j, Num(0), Num(455), Undef, Num(0))
      [] j % 4 = 3 -> Row(j, Null, Num(512), Str("dark"), Num(0))
      [] OTHER     -> Row(j, Num(305), Null, Undef, Num(1))

\* What the query yields: the n rows from the from-th oldest on, sorted by
\* _time descending.
QueryRows(from, n) == [i \in 1..n |-> StoreRow(from + n - i)]

(***************************************************************************)
(* The state machine.                                                      *)
(***************************************************************************)
NoSample == SensorData(Undef, Undef, Undef, Undef, Undef, Undef)
NoMessage == Message("none", Undef, Undef, Undef, Undef, Undef)

Init ==
    /\ data = InitialData
    /\ chartData = <<>>
    /\ stats = InitialStats
    /\ status = "connecting"
    /\ messageCount = 0
    /\ client = "connecting"
    /\ subscribeCalls = 0
    /\ ended = FALSE
    /\ fetch = "pending"
    /\ response = NoResponse
    /\ arrivals = <<>>
    /\ lastOp = "mount"
    /\ rawIn = NoMessage
    /\ normOut = NoSample

\* The route handles the request of fetch('/api/sensors').
RouteGET(rows, failed) ==
    /\ fetch = "pending"
    /\ fetch' = "responded"
    /\ response' = GET(rows, failed)
    /\ lastOp' = IF failed THEN "GETCatch" ELSE "GET"
    /\ UNCHANGED <<data, chartData, stats, status, messageCount, client,
                   subscribeCalls, ended, arrivals, rawIn, normOut>>

\* fetchHistory continues after await res.json().
FetchHistory ==
    /\ fetch = "responded"
    /\ LET json == response
       IN  /\ IF "chartData" \in json.keys
              THEN /\ chartData' = json.chartData
                   /\ stats' = calculateStats(json.chartData)
                   /\ fetch' = "seeded"
              ELSE /\ UNCHANGED <<chartData, stats>>
                   /\ fetch' = "failed"
           /\ IF "current" \in json.keys
              THEN data' = json.current
              ELSE UNCHANGED data
    /\ response' = NoResponse
    /\ lastOp' = "fetchHistory"
    /\ UNCHANGED <<status, messageCount, client, subscribeCalls, ended, arrivals,
                   rawIn, normOut>>

\* fetch or res.json() rejects: the catch of fetchHistory.
FetchHistoryCatch ==
    /\ fetch \in {"pending", "responded"}
    /\ fetch' = "failed"
    /\ response' = NoResponse
    /\ lastOp' = "fetchHistoryCatch"
    /\ UNCHANGED <<data, chartData, stats, status, messageCount, client,
                   subscribeCalls, ended, arrivals, rawIn, normOut>>

\* A variant of the connect handler that also resets the message counter.
OnConnectResetsCount ==
    /\ ~ended
    /\ client \in {"connecting", "closed"}
    /\ client' = "connected"
    /\ status' = "online"
    /\ subscribeCalls' = subscribeCalls + 1
    /\ messageCount' = 0
    /\ lastOp' = "connect"
    /\ UNCHANGED <<data, chartData, stats, ended, fetch, response,
                   arrivals, rawIn, normOut>>

\* A variant of the connect handler that subscribes a second time.
OnConnectSubscribesTwice ==
    /\ ~ended
    /\ client \in {"connecting", "closed"}
    /\ client' = "connected"
    /\ status' = "online"
    /\ subscribeCalls' = subscribeCalls + 2
    /\ lastOp' = "connect"
    /\ UNCHANGED <<data, chartData, stats, messageCount, ended, fetch, response,
                   arrivals, rawIn, normOut>>

\* client.on('connect')
OnConnect ==
    /\ ~ended
    /\ client \in {"connecting", "closed"}
    /\ client' = "connected"
    /\ status' = "online"
    /\ subscribeCalls' = subscribeCalls + 1
    /\ lastOp' = "connect"
    /\ UNCHANGED <<data, chartData, stats, messageCount, ended, fetch, response,
                   arrivals, rawIn, normOut>>

\* A variant whose updater computes the stats from prev, not from updated.
OnMessageStaleStats(m) ==
    /\ client = "connected"
    /\ subscribeCalls > 0
    /\ IF HandlerThrows(m)
       THEN /\ lastOp' = "messageCatch"
            /\ UNCHANGED <<data, messageCount, chartData, stats, arrivals>>
       ELSE /\ messageCount < MaxMessages
            /\ LET sample == newData(m)
                   updated == SliceLast(Append(chartData, sample), Capacity)
               IN  /\ data' = sample
                   /\ messageCount' = messageCount + 1
                   /\ chartData' = updated
                   /\ stats' = calculateStats(chartData)
                   /\ arrivals' = Append(arrivals, sample)
            /\ lastOp' = "message"
    /\ UNCHANGED <<status, client, subscribeCalls, ended, fetch, response,
                   rawIn, normOut>>

\* A variant that counts the message before parsing it.
OnMessageCountFirst(m) ==
    /\ client = "connected"
    /\ subscribeCalls > 0
    /\ messageCount < MaxMessages
    /\ messageCount' = messageCount + 1
    /\ IF HandlerThrows(m)
       THEN /\ lastOp' = "messageCatch"
            /\ UNCHANGED <<data, chartData, stats, arrivals>>
       ELSE /\ LET sample == newData(m)
                   updated == SliceLast(Append(chartData, sample), Capacity)
               IN  /\ data' = sample
                   /\ chartData' = updated
                   /\ stats' = calculateStats(updated)
                   /\ arrivals' = Append(arrivals, sample)
            /\ lastOp' = "message"
    /\ UNCHANGED <<status, client, subscribeCalls, ended, fetch, response,
                   rawIn, normOut>>

\* A variant that sets the counter from the value the effect closed over,
\* setMessageCount(messageCount + 1) with messageCount = 0.
OnMessageStaleCount(m) ==
    /\ client = "connected"
    /\ subscribeCalls > 0
    /\ IF HandlerThrows(m)
       THEN /\ lastOp' = "messageCatch"
            /\ UNCHANGED <<data, messageCount, chartData, stats, arrivals>>
       ELSE /\ Len(arrivals) < MaxMessages
            /\ LET sample == newData(m)
                   updated == SliceLast(Append(chartData, sample), Capacity)
               IN  /\ data' = sample
                   /\ messageCount' = 0 + 1
                   /\ chartData' = updated
                   /\ stats' = calculateStats(updated)
                   /\ arrivals' = Append(arrivals, sample)
            /\ lastOp' = "message"
    /\ UNCHANGED <<status, client, subscribeCalls, ended, fetch, response,
                   rawIn, normOut>>

\* client.on('message')
OnMessage(m) ==
    /\ client = "connected"
    /\ subscribeCalls > 0
    /\ IF HandlerThrows(m)
       THEN /\ lastOp' = "messageCatch"
            /\ UNCHANGED <<data, messageCount, chartData, stats, arrivals>>
       ELSE /\ messageCount < MaxMessages
            /\ LET sample == newData(m)
                   updated == SliceLast(Append(chartData, sample), Capacity)
               IN  /\ data' = sample
                   /\ messageCount' = messageCount + 1
                   /\ chartData' = updated
                   /\ stats' = calculateStats(updated)
                   /\ arrivals' = Append(arrivals, sample)
            /\ lastOp' = "message"
    /\ UNCHANGED <<status, client, subscribeCalls, ended, fetch, response,
                   rawIn, normOut>>

\* client.on('error')
OnError ==
    /\ ~(ended /\ client = "closed")
    /\ status' = "offline"
    /\ lastOp' = "error"
    /\ UNCHANGED <<data, chartData, stats, messageCount, client, subscribeCalls,
                   ended, fetch, response, arrivals, rawIn, normOut>>

\* A variant of the close handler that leaves the status alone.
OnCloseKeepsStatus ==
    /\ client \in {"connecting", "connected"}
    /\ client' = "closed"
    /\ subscribeCalls' = 0
    /\ lastOp' = "close"
    /\ UNCHANGED <<data, chartData, stats, status, messageCount, ended, fetch,
                   response, arrivals, rawIn, normOut>>

\* client.on('close')
OnClose ==
    /\ client \in {"connecting", "connected"}
    /\ client' = "closed"
    /\ status' = "offline"
    /\ subscribeCalls' = 0
    /\ lastOp' = "close"
    /\ UNCHANGED <<data, chartData, stats, messageCount, ended, fetch, response,
                   arrivals, rawIn, normOut>>

\* The cleanup of the MQTT effect: client.end()
Cleanup ==
    /\ ~ended
    /\ ended' = TRUE
    /\ lastOp' = "end"
    /\ UNCHANGED <<data, chartData, stats, status, messageCount, client,
                   subscribeCalls, fetch, response, arrivals, rawIn, normOut>>

Next ==
    \/ \E n \in 0..MaxRows, failed \in BOOLEAN :
           RouteGET(QueryRows(1, n), failed)
    \/ FetchHistory
    \/ FetchHistoryCatch
    \/ OnConnect
    \/ \E m \in Messages : OnMessage(m)
    \/ OnError
    \/ OnClose
    \/ Cleanup

Spec == Init /\ [][Next]_vars

(***************************************************************************)
(* The normalization of one message, on its own.                           *)
(***************************************************************************)
\* The JSON objects a message can carry, field by field.
Payloads ==
    { Message("object", t, h, ls, lv, ts) :
        t \in {Undef, Null, Num(0), Num(215)},
        h \in {Undef, Null, Num(500)},
        ls \in {Undef, Null, Str("bright"), Str("dark"), Str("unknown")},
        lv \in {Undef, Num(0), Num(1), Num(512)},
        ts \in {Undef, Str("12:00")} }

NormInit ==
    /\ data = InitialData
    /\ chartData = <<>>
    /\ stats = InitialStats
    /\ status = "connecting"
    /\ messageCount = 0
    /\ client = "connecting"
    /\ subscribeCalls = 0
    /\ ended = FALSE
    /\ fetch = "pending"
    /\ response = NoResponse
    /\ arrivals = <<>>
    /\ lastOp = "mount"
    /\ rawIn \in Payloads
    /\ normOut = NoSample

Normalize ==
    /\ lastOp = "mount"
    /\ normOut' = newData(rawIn)
    /\ lastOp' = "newData"
    /\ UNCHANGED <<data, chartData, stats, status, messageCount, client,
                   subscribeCalls, ended, fetch, response, arrivals, rawIn>>

\* The history route answers a query whose one row carries the same reading.
RouteSameReading ==
    /\ lastOp = "newData"
    /\ response' = GET(<<Row(1, rawIn.temperature, rawIn.humidity,
                             rawIn.light_status, rawIn.light_value)>>, FALSE)
    /\ lastOp' = "GET"
    /\ UNCHANGED <<data, chartData, stats, status, messageCount, client,
                   subscribeCalls, ended, fetch, arrivals, rawIn, normOut>>

NormNext == Normalize \/ RouteSameReading

NormSpec == NormInit /\ [][NormNext]_vars

(***************************************************************************)
(* The stats of one window, on their own: the route answers a query, the   *)
(* component seeds the window from it, and calculateStats is then applied  *)
(* again to the same window and to reorderings of it.                      *)
(***************************************************************************)
\* The temperature and humidity readings of a row.
Readings ==
    { <<Null, Num(500)>>, <<Undef, Null>>, <<Num(0), Num(0)>>,
      <<Num(1), Undef>>, <<Num(2), Num(455)>>, <<Num(3), Num(500)>> }

\* The query results of n rows, sorted by _time descending.
ReadingRows(n) ==
    { [i \in 1..n |-> Row(n - i + 1, f[i][1], f[i][2], Str("bright"), Num(1))] :
        f \in [1..n -> Readings] }

\* calculateStats applied once more to the window as it is.
Recalculate ==
    /\ fetch = "seeded"
    /\ stats' = calculateStats(chartData)
    /\ lastOp' = "calculateStats"
    /\ UNCHANGED <<data, chartData, status, messageCount, client, subscribeCalls,
                   ended, fetch, response, arrivals, rawIn, normOut>>

\* calculateStats applied to the window with the samples at i and i + 1
\* exchanged.
Permute(i) ==
    /\ fetch = "seeded"
    /\ i + 1 <= Len(chartData)
    /\ chartData' = [chartData EXCEPT ![i] = chartData[i + 1],
                                      ![i + 1] = chartData[i]]
    /\ stats' = calculateStats(chartData')
    /\ lastOp' = "permute"
    /\ UNCHANGED <<data, status, messageCount, client, subscribeCalls,
                   ended, fetch, response, arrivals, rawIn, normOut>>

StatsNext ==
    \/ \E n \in 0..MaxSeq : \E rows \in ReadingRows(n) : RouteGET(rows, FALSE)
    \/ FetchHistory
    \/ Recalculate
    \/ \E i \in 1..MaxSeq : Permute(i)

StatsSpec == Init /\ [][StatsNext]_vars

(***************************************************************************)
(* Properties.                                                             *)
(***************************************************************************)
\* C1: as long as no history seed has been applied, the window is at most
\* Capacity long and is exactly the last Capacity samples appended live, in
\* arrival order.
C1_LiveWindowIsLastCapacity ==
    fetch # "seeded" =>
        LET n == Len(arrivals)
            kept == IF n > Capacity THEN Capacity ELSE n
        IN  /\ Len(chartData) <= Capacity
            /\ Len(chartData) = kept
            /\ \A i \in 1..kept : chartData[i] = arrivals[n - kept + i]

\* More than Capacity samples were appended: the first one is gone, the
\* second is now the oldest of the window.
C1_Witness ==
    /\ fetch # "seeded"
    /\ Len(arrivals) = Capacity + 1
    /\ Len(chartData) = Capacity
    /\ chartData[1] = arrivals[2]
    /\ \A i \in 1..Len(chartData) : chartData[i] # arrivals[1]

\* C2: in every reachable state the window is at most Capacity long, also
\* after a seed with a history longer than Capacity.
C2_WindowWithinCapacity == Len(chartData) <= Capacity

\* C3: a live sample is appended only once fetchHistory has resolved, with a
\* seed or with a failure.
C3_NoAppendBeforeSeedResolves ==
    messageCount > 0 => fetch \in {"seeded", "failed"}

\* C4: the stats are always those calculateStats gives for the current
\* window; for the empty window they are the '--' sentinel.
C4_StatsMatchWindow ==
    /\ stats = calculateStats(chartData)
    /\ chartData = <<>> => stats = InitialStats

\* An append has just evicted the sample holding the minimum temperature,
\* and the minimum moved.
C4_WitnessEvictedMin ==
    /\ lastOp = "message"
    /\ fetch # "seeded"
    /\ Len(arrivals) = Capacity + 1
    /\ arrivals[1].temperature = Num(0)
    /\ \A i \in 2..Len(arrivals) : arrivals[i].temperature # Num(0)
    /\ stats.temp.min # Str("0.0")
    /\ stats.temp.min # Str("--")

\* C5: a message whose handling throws (the payload does not parse) is
\* dropped: the counter, the window, the stats, the latest sample and the
\* status are as before, and so are the connection and its subscription, so
\* that the handler takes the next well-formed message as it would have.
C5_MalformedDropped ==
    [][lastOp' = "messageCatch" =>
         /\ UNCHANGED <<messageCount, chartData, stats, data, status>>
         /\ UNCHANGED <<client, subscribeCalls, ended>>
         /\ client' = "connected" /\ subscribeCalls' > 0]_vars

\* A malformed message was dropped mid-stream, after samples had arrived.
C5_Witness ==
    /\ lastOp = "messageCatch"
    /\ messageCount > 0
    /\ status = "online"
    /\ Len(chartData) > 0

\* C6: when the history query fails, also after rows were received, the
\* route answers with the error body and status 500 and no data, and
\* fetchHistory applies no seed: window, stats and latest sample stay.
C6_FailedHistoryNotSeeded ==
    /\ [][lastOp' = "GETCatch" =>
             /\ response'.httpStatus = 500
             /\ response'.keys = {"error"}
             /\ response'.error = Str("Failed to fetch data")]_vars
    /\ [][/\ fetch = "responded"
           /\ response.httpStatus = 500
           /\ fetch' # "responded"
           => /\ fetch' = "failed"
              /\ UNCHANGED <<chartData, stats, data>>]_vars
    /\ [][lastOp' = "fetchHistoryCatch" =>
             /\ fetch' = "failed"
             /\ UNCHANGED <<chartData, stats, data>>]_vars

\* fetchHistory has handled the error response while the window held live
\* samples, and the window is still those samples.
C6_Witness ==
    /\ lastOp = "fetchHistory"
    /\ fetch = "failed"
    /\ Len(chartData) > 0
    /\ chartData = SliceLast(arrivals, Capacity)
    /\ data = chartData[Len(chartData)]

\* C7: the status is connecting until the first lifecycle event, a connect
\* sets it online, an error or a close sets it offline, and nothing else
\* changes it: it is decided by the latest lifecycle event.
C7_StatusFollowsLastEvent ==
    /\ [](lastOp = "mount" => status = "connecting")
    /\ [][lastOp' = "connect" => status' = "online"]_vars
    /\ [][lastOp' \in {"error", "close"} => status' = "offline"]_vars
    /\ [][lastOp' \notin {"connect", "error", "close"} => status' = status]_vars

\* A reconnect: samples arrived on an earlier connection, it closed, and the
\* connect handler has just set the status online again.
C7_WitnessReconnect ==
    /\ lastOp = "connect"
    /\ messageCount > 0
    /\ status = "online"

\* C8: once the cleanup has ended the client the status is offline (and
\* nothing changes it afterwards).
C8_TeardownIsOffline == ended => status = "offline"

\* C9: the counter equals the number of live appends; it grows by one with
\* each well-formed message, together with one append of that message's
\* sample, and no other step changes it.
C9_CounterCountsAppends ==
    /\ [](messageCount = Len(arrivals))
    /\ [][IF lastOp' = "message"
           THEN /\ messageCount' = messageCount + 1
                /\ chartData' = SliceLast(Append(chartData, data'), Capacity)
           ELSE /\ messageCount' = messageCount
                /\ arrivals' = arrivals]_vars

\* Well-formed and malformed messages, a seed and lifecycle events have all
\* happened, and the counter is at three.
C9_Witness ==
    /\ messageCount = 3
    /\ Len(arrivals) = 3
    /\ fetch = "seeded"
    /\ lastOp = "messageCatch"
    /\ Len(chartData) = Capacity

\* C10: without a light_status (absent or null) the status is dark for
\* light_value 0 and bright for a non-zero light_value; a light_status that
\* is given is kept.
C10_LightStatusDerived ==
    lastOp = "newData" =>
        IF rawIn.light_status.k = "str"
        THEN normOut.light_status = rawIn.light_status
        ELSE /\ rawIn.light_value = Num(0) => normOut.light_status = Str("dark")
             /\ rawIn.light_value.k = "num" /\ rawIn.light_value.n # 0 =>
                    normOut.light_status = Str("bright")

\* light_value 0 with no light_status has been normalized to dark.
C10_Witness ==
    /\ lastOp = "newData"
    /\ rawIn.light_status = Undef
    /\ rawIn.light_value = Num(0)
    /\ normOut.light_status = Str("dark")

\* C11: a reading with neither light_status nor light_value normalizes to
\* unknown, in the message handler and in the history route.
C11_AbsentLightIsUnknown ==
    /\ lastOp = "GET"
    /\ rawIn.light_status = Undef
    /\ rawIn.light_value = Undef
    => /\ normOut.light_status = Str("unknown")
       /\ response.current.light_status = Str("unknown")

\* C12: for the same reading the sample of the history route and the sample
\* of the message handler have the same light_status, temperature, humidity
\* and light_value.
C12_RouteAndLiveNormalizeAlike ==
    lastOp = "GET" =>
        /\ Len(response.chartData) = 1
        /\ response.chartData[1].light_status = normOut.light_status
        /\ response.chartData[1].temperature = normOut.temperature
        /\ response.chartData[1].humidity = normOut.humidity
        /\ response.chartData[1].light_value = normOut.light_value

\* C13: when no sample of the window has a metric present (the window is
\* empty, or the metric is null or omitted in every sample), min, max and
\* avg of that metric are the '--' sentinel.
C13_NoDataIsSentinel ==
    fetch = "seeded" =>
        /\ (\A i \in 1..Len(chartData) : chartData[i].temperature.k # "num")
              => stats.temp = InitialStats.temp
        /\ (\A i \in 1..Len(chartData) : chartData[i].humidity.k # "num")
              => stats.humidity = InitialStats.humidity

\* C14: min, max and avg of a metric are those of exactly the samples where
\* the metric is a number, a reading of 0 included: in the stats of the
\* route over its rows and in the stats of the component over the window.
C14_StatsOverPresentValues ==
    LET present(rows, metric) ==
            LET kept == SelectSeq(rows, LAMBDA r : r[metric].k = "num")
            IN  [i \in 1..Len(kept) |-> kept[i][metric]]
    IN  /\ fetch = "responded" /\ response.httpStatus = 200 =>
              /\ response.stats.temp =
                     MetricStats(present(response.chartData, "temperature"), Null)
              /\ response.stats.humidity =
                     MetricStats(present(response.chartData, "humidity"), Null)
        /\ fetch = "seeded" =>
              /\ stats.temp = MetricStats(present(chartData, "temperature"), Str("--"))
              /\ stats.humidity = MetricStats(present(chartData, "humidity"), Str("--"))

\* C15: calculateStats applied again to the same window, or to the window
\* with two samples exchanged, gives the same min, max and avg.
C15_StatsOrderIndependent ==
    [][fetch = "seeded" /\ lastOp' \in {"calculateStats", "permute"}
         => stats' = stats]_vars

\* C16: the route turns the newest-first rows into an oldest-first chartData
\* (the reverse of the rows, each row once), the seed makes exactly that
\* the window, and an append after the seed goes behind the newest sample
\* and keeps the order of the samples that stay.
C16_SeedIsChronological ==
    /\ [](fetch = "responded" /\ response.httpStatus = 200 =>
             LET n == Len(response.history)
             IN  /\ Len(response.chartData) = n
                 /\ \A i \in 1..n :
                        /\ response.chartData[i] = response.history[n + 1 - i]
                        /\ response.chartData[i].timestamp = LocaleString(i))
    /\ [][lastOp' = "fetchHistory" /\ fetch' = "seeded" =>
              chartData' = response.chartData]_vars
    /\ [][fetch = "seeded" /\ lastOp' = "message" =>
              LET n == Len(chartData')
                  dropped == Len(chartData) + 1 - n
              IN  /\ n >= 1
                  /\ chartData'[n] = data'
                  /\ \A i \in 1..(n - 1) : chartData'[i] = chartData[i + dropped]]_vars

\* Two rows were seeded, oldest first, and a live sample was appended
\* behind them.
C16_Witness ==
    /\ fetch = "seeded"
    /\ lastOp = "message"
    /\ Len(chartData) = 3
    /\ chartData[1].timestamp = LocaleString(1)
    /\ chartData[2].timestamp = LocaleString(2)
    /\ chartData[3].time = ClockLocaleTimeString

\* C17: connect, error and close leave the window, the stats, the latest
\* sample and the counter unchanged; a message, malformed or not, and the
\* history bootstrap leave the status unchanged, and the bootstrap leaves
\* the counter unchanged.
C17_FrameOfHandlers ==
    [][/\ lastOp' \in {"connect", "error", "close"} =>
             UNCHANGED <<chartData, stats, data, messageCount>>
       /\ lastOp' \in {"message", "messageCatch", "fetchHistory",
                        "fetchHistoryCatch"} => UNCHANGED status
       /\ lastOp' \in {"fetchHistory", "fetchHistoryCatch"} =>
             UNCHANGED messageCount]_vars

\* An error event has arrived after a seed and live samples, and only the
\* status moved.
C17_Witness ==
    /\ lastOp = "error"
    /\ status = "offline"
    /\ fetch = "seeded"
    /\ messageCount = 2
    /\ Len(chartData) > 0
    /\ stats # InitialStats

\* C18: client.subscribe is called once by each connect event and by
\* nothing else, so a connection never has more than one subscription
\* requested, and has one whenever the status is online.
C18_OneSubscribePerCycle ==
    /\ [](subscribeCalls <= 1)
    /\ [](status = "online" => subscribeCalls = 1)
    /\ [][lastOp' = "connect" => subscribeCalls' = subscribeCalls + 1]_vars
    /\ [][subscribeCalls' > subscribeCalls => lastOp' = "connect"]_vars

\* The client has reconnected after an earlier connection delivered samples
\* and closed, and one subscription is requested for the new connection.
C18_WitnessResubscribed ==
    /\ lastOp = "connect"
    /\ client = "connected"
    /\ Len(arrivals) > 0
    /\ subscribeCalls = 1

\* C19: whenever the window is not empty, the latest sample is its last
\* element.
C19_LatestIsLastOfWindow ==
    Len(chartData) > 0 => data = chartData[Len(chartData)]

\* A seed of several rows has replaced a window of live samples, and the
\* latest sample is the newest row.
C19_WitnessSeed ==
    /\ lastOp = "fetchHistory"
    /\ fetch = "seeded"
    /\ messageCount > 0
    /\ Len(chartData) >= 2
    /\ data = chartData[Len(chartData)]
    /\ data.timestamp = LocaleString(Len(chartData))

====
